---- MODULE Spec2Model ----
(***************************************************************************)
(* State-machine model of the ingestion-and-retrieval engine of            *)
(* intellidoc: the Celery task process_document_task, the pipeline         *)
(* DocumentProcessor.process_document with save_to_faiss, the maintenance  *)
(* sweep cleanup_failed_uploads, the soft delete of a document and         *)
(* FAISSSearchService.search_documents.                                    *)
(*                                                                         *)
(* Every Document.save() and every file write is one atomic step.  A       *)
(* save() without update_fields writes the whole in-memory copy of the     *)
(* row, so each execution carries its own copy ("mem").  Document.save()   *)
(* itself is assumed not to fail; the stages that can raise are the ones   *)
(* the pipeline calls: extraction, embedding, the three parts of           *)
(* save_to_faiss, bulk_create, and the code of the task outside            *)
(* process_document (User lookup, update_usage).                           *)
(***************************************************************************)
EXTENDS Integers, Sequences, FiniteSets, TLC

\* ------------------------------------------------------------------ bounds
MaxChunks == 2
MaxVectors == 3
MaxK == 2
MaxFaults == 1
MaxVectorsStale == 4
MaxUploads == 2

\* ------------------------------------------------------- program constants
max_retries == 3
RetryBaseCountdown == 60
OverFetch == 2

\* The Celery task ids of the delay() calls a behaviour may make.
Tasks == {1, 2}

Docs == {"d1", "d2"}
Users == {"A", "B"}

\* Document.owner: fixed at creation, never reassigned.
Owner(d) == IF d = "d1" THEN "A" ELSE "B"

\* len(create_chunks(text, id)): the number of chunks the splitter emits for
\* the document's text; it depends on the stored file only.
NumChunks(d) == IF d = "d1" THEN 1 ELSE MaxChunks

TimeoutMessage == "Processing timed out after 24 hours"
ExtractMessage == "Failed to extract text"

\* str(e) for the exception a stage raises.  extract_text_from_file wraps
\* every failure in Exception("Failed to extract text: ..."); index.add
\* checks the dimension with a bare `assert d == self.d`, whose str() is
\* empty; the other failures carry a message.
StrOfException(stage) ==
    CASE stage = "extract"     -> {ExtractMessage}
      [] stage = "faiss_index" -> {"", "exc"}
      [] stage = "faiss_dim"   -> {""}
      [] OTHER                 -> {"exc"}

\* A freshly created Document row (models.py field defaults).
NewRow == [status |-> "uploading", processing_progress |-> 0,
           error_message |-> "", chunk_count |-> 0, is_indexed |-> FALSE]

\* The dimensions that the embeddings of a run can have: that of the model
\* named by settings.EMBEDDING_MODEL (SentenceTransformer, services.py 24),
\* and that of another model, after the setting was changed.
Dims == {"dim_model", "dim_other"}
ModelDim == "dim_model"

NoIndex == [exists |-> FALSE, dim |-> "none", vecs |-> <<>>]
NoMeta  == [exists |-> FALSE, id_to_chunk |-> <<>>, next_id |-> 0]

VARIABLES
    db,          \* Document rows: doc -> row
    chunkRows,   \* DocumentChunk rows
    indexFile,   \* document_index.faiss
    metaFile,    \* metadata.json
    queue,       \* task messages waiting at the broker
    running,     \* executions of process_document_task in flight
    taskDoc,     \* taskDoc[t]: the document of the t-th delay() call
    sweep,       \* cleanup_failed_uploads: the rows loaded and not yet saved
    old,         \* the rows' uploaded_at is more than 24 hours ago
    failed,      \* history: the executions that ended in a failure
    lastSearch,  \* what the most recent step returned, if it was a search
    reader,      \* a search_documents call between its two file reads
    events,      \* the messages sent to the owners' channel groups
    uploads      \* the POST requests document_upload_view has answered

vars == <<db, chunkRows, indexFile, metaFile, queue, running, taskDoc,
          sweep, old, failed, lastSearch, reader, events, uploads>>

NoSearch == [user |-> "none", k |-> 0, scope |-> {}, results |-> <<>>,
             dropped |-> {}, missing |-> {}, found |-> 0]

\* A search_documents call that has read no file yet.
NoReader == [user |-> "none", k |-> 0, scope |-> {}, pc |-> "idle",
             ldIndex |-> NoIndex, ldMeta |-> NoMeta]

\* No search response is outstanding: a search is a request and its
\* response, and the other operations are taken between searches.  A step
\* that is not a step of a search leaves a search in progress as it is.
Quiet ==
    /\ lastSearch = NoSearch /\ lastSearch' = NoSearch
    /\ UNCHANGED reader

Init ==
    /\ db = [d \in Docs |-> NewRow]
    /\ chunkRows = {}
    /\ indexFile = NoIndex
    /\ metaFile = NoMeta
    /\ queue = {}
    /\ running = {}
    /\ taskDoc = <<>>
    /\ sweep = {}
    /\ old = FALSE
    /\ failed = {}
    /\ lastSearch = NoSearch
    /\ reader = NoReader
    /\ events = {}
    /\ uploads = <<>>

\* ------------------------------------------------------------- messages
\* The messages that execution `r` of task `t` has sent so far.
RunEvents(t, r) == {x \in events : x.task = t /\ x.retries = r}

\* async_to_sync(channel_layer.group_send)(f"user_{user_id}", {...}) with
\* the "status" and "progress" of the message; n is its place among the
\* messages of the execution.
Sent(t, r, status, progress) ==
    events \cup {[task |-> t, retries |-> r,
                  n |-> Cardinality(RunEvents(t, r)) + 1,
                  status |-> status, progress |-> progress]}

\* ------------------------------------------------------------ scheduling
\* process_document_task.delay(document_id, user_id)
Schedule(d) ==
    /\ Len(taskDoc) < Cardinality(Tasks)
    /\ taskDoc' = Append(taskDoc, d)
    /\ queue' = queue \cup {[task |-> Len(taskDoc) + 1, doc |-> d,
                             retries |-> 0, countdown |-> 0]}
    /\ Quiet
    /\ UNCHANGED <<db, chunkRows, indexFile, metaFile, running, sweep, old,
                   failed, events, uploads>>

\* self.request.retries < self.max_retries
ShouldRetry_Mut(retries) == retries <= max_retries
ShouldRetry(retries) == retries < max_retries

\* countdown=60 * (self.request.retries + 1)
RetryCountdown(retries) == RetryBaseCountdown * (retries + 1)

\* The `except Exception as e` handler of the task: reload the row, store
\* the error, then retry or give up.
OuterHandler(task, d, retries, stage) ==
    /\ \E msg \in StrOfException(stage) :
          db' = [db EXCEPT ![d] = [db[d] EXCEPT !.status = "error",
                                               !.error_message = msg]]
    /\ failed' = failed \cup {[task |-> task, retries |-> retries,
                               stage |-> stage]}
    /\ IF ShouldRetry(retries)
       THEN queue' = (queue \ {m \in queue : m.task = task})
                     \cup {[task |-> task, doc |-> d,
                            retries |-> retries + 1,
                            countdown |-> RetryCountdown(retries)]}
       ELSE queue' = queue \ {m \in queue : m.task = task}

Execution(m, row) ==
    [task |-> m.task, doc |-> m.doc, retries |-> m.retries,
     countdown |-> m.countdown, pc |-> "prepare", mem |-> row,
     dim |-> "none", ldIndex |-> NoIndex, ldMeta |-> NoMeta,
     start_id |-> 0]

\* A worker takes a message and runs the task up to the first stage of the
\* pipeline: tasks.py 21-29 and services.py 167-169 (status processing,
\* progress 10, saved twice with nothing but a notification in between).
TaskStart(m) ==
    /\ m \in queue
    /\ LET row == [db[m.doc] EXCEPT !.status = "processing",
                                    !.processing_progress = 10]
       IN /\ db' = [db EXCEPT ![m.doc] = row]
          /\ running' = running \cup {Execution(m, row)}
    /\ queue' = queue \ {m}
    /\ events' = Sent(m.task, m.retries, "processing", 10)
    /\ Quiet
    /\ UNCHANGED <<chunkRows, indexFile, metaFile, taskDoc, sweep, old,
                   failed, uploads>>

\* User.objects.get(id=user_id) raises before the row is touched.
TaskStartFails(m) ==
    /\ m \in queue
    /\ OuterHandler(m.task, m.doc, m.retries, "outer_start")
    /\ Quiet
    /\ UNCHANGED <<chunkRows, indexFile, metaFile, running, taskDoc, sweep,
                   old, events, uploads>>

\* Document.objects.get(id=document_id) at line 21 raises because the
\* database cannot be reached, and so does the same call in the handler
\* (line 106): `except Exception as save_error` logs it, the row keeps what
\* it had, and lines 113-116 retry or give up.
TaskStartFailsUnsaved(m) ==
    /\ m \in queue
    /\ failed' = failed \cup {[task |-> m.task, retries |-> m.retries,
                               stage |-> "outer_unsaved"]}
    /\ queue' = IF ShouldRetry(m.retries)
                THEN (queue \ {m})
                     \cup {[task |-> m.task, doc |-> m.doc,
                            retries |-> m.retries + 1,
                            countdown |-> RetryCountdown(m.retries)]}
                ELSE queue \ {m}
    /\ Quiet
    /\ UNCHANGED <<db, chunkRows, indexFile, metaFile, running, taskDoc,
                   sweep, old, events, uploads>>

\* ------------------------------------------------------------- pipeline
\* The order in which the task and process_document run their stages.
StageOrder_Mut ==
    <<"prepare", "embed", "bulk", "faiss_load", "faiss_index",
      "faiss_meta", "final", "usage">>
StageOrder ==
    <<"prepare", "embed", "faiss_load", "faiss_index", "faiss_meta",
      "bulk", "final", "usage">>

NextPc(pc) ==
    LET i == CHOOSE j \in 1..Len(StageOrder) : StageOrder[j] = pc
    IN IF i < Len(StageOrder) THEN StageOrder[i + 1] ELSE "done"

\* document.processing_progress = p; document.save()
SaveProgress(e, p) ==
    LET row == [e.mem EXCEPT !.processing_progress = p]
    IN /\ db' = [db EXCEPT ![e.doc] = row]
       /\ running' = (running \ {e})
                     \cup {[e EXCEPT !.mem = row, !.pc = NextPc(e.pc)]}

\* The `except Exception as e` branch of process_document: the in-memory
\* copy, at the progress the run had reached, is saved with status error
\* and str(e); process_document returns False and the task ends through its
\* else branch (tasks.py 80-99): the error message with "progress": 0 is
\* sent, and there is no retry.
PipelineFails(e, stage, progress) ==
    /\ \E msg \in StrOfException(stage) :
          db' = [db EXCEPT ![e.doc] =
                    [e.mem EXCEPT !.status = "error",
                                  !.processing_progress = progress,
                                  !.error_message = msg]]
    /\ running' = running \ {e}
    /\ failed' = failed \cup {[task |-> e.task, retries |-> e.retries,
                               stage |-> stage]}
    /\ events' = Sent(e.task, e.retries, "error", 0)

\* document.file_type as the upload left it: pre_save (models.py 207-212)
\* stores the extension of the file name, whatever it is.
FileTypes == {"pdf", "docx", "doc", "txt", "md", "other"}

\* extract_text_from_file(file_path, file_type), lines 38-77: "text" when
\* it returns (text, metadata), "raise" when it raises.  `readable` is
\* whether the loader or open()/read() of the branch succeeds; a type of
\* no branch raises ValueError (line 71), and every exception is raised
\* again as Exception("Failed to extract text: ...") (lines 75-77).
extract_text_from_file(file_type, readable) ==
    IF file_type \in {"pdf", "docx", "doc", "txt", "md"} /\ readable
    THEN "text"
    ELSE "raise"

\* Lines 171-185: extraction (progress 30) and chunking (50).  The two
\* saves write the same in-memory copy one after the other, so they are
\* one step that leaves the second of them.
Prepare(e) ==
    /\ e \in running /\ e.pc = "prepare"
    /\ \E ft \in FileTypes, readable \in BOOLEAN :
          extract_text_from_file(ft, readable) = "text"
    /\ SaveProgress(e, 50)
    /\ Quiet
    /\ UNCHANGED <<chunkRows, indexFile, metaFile, queue, taskDoc, sweep,
                   old, failed, events, uploads>>

\* extract_text_from_file raises: progress is still 10.
ExtractFails(e) ==
    /\ e \in running /\ e.pc = "prepare"
    /\ \E ft \in FileTypes, readable \in BOOLEAN :
          extract_text_from_file(ft, readable) = "raise"
    /\ PipelineFails(e, "extract", 10)
    /\ Quiet
    /\ UNCHANGED <<chunkRows, indexFile, metaFile, queue, taskDoc, sweep,
                   old, uploads>>

\* Lines 187-190: generate_embeddings returns embeddings of dimension
\* `dim`, then progress 70.
Embed(e, dim) ==
    /\ e \in running /\ e.pc = "embed"
    /\ LET row == [e.mem EXCEPT !.processing_progress = 70]
       IN /\ db' = [db EXCEPT ![e.doc] = row]
          /\ running' = (running \ {e})
                \cup {[e EXCEPT !.mem = row, !.dim = dim,
                                !.pc = NextPc(e.pc)]}
    /\ Quiet
    /\ UNCHANGED <<chunkRows, indexFile, metaFile, queue, taskDoc, sweep,
                   old, failed, events, uploads>>

\* generate_embeddings raises: progress 50 was saved after chunking.
EmbedFails(e) ==
    /\ e \in running /\ e.pc = "embed"
    /\ PipelineFails(e, "embed", 50)
    /\ Quiet
    /\ UNCHANGED <<chunkRows, indexFile, metaFile, queue, taskDoc, sweep,
                   old, uploads>>

\* ---------------------------------------------------------- save_to_faiss
\* Lines 125-137: load the index and the side-car, or start empty ones.
FaissLoad(e) ==
    /\ e \in running /\ e.pc = "faiss_load"
    /\ indexFile.exists => metaFile.exists
    /\ running' = (running \ {e})
                  \cup {[e EXCEPT !.ldIndex = indexFile,
                                  !.ldMeta = IF indexFile.exists
                                             THEN metaFile ELSE NoMeta,
                                  !.pc = NextPc(e.pc)]}
    /\ Quiet
    /\ UNCHANGED <<db, chunkRows, indexFile, metaFile, queue, taskDoc,
                   sweep, old, failed, events, uploads>>

\* The index file exists and metadata.json does not: open() raises.
FaissLoadFails(e) ==
    /\ e \in running /\ e.pc = "faiss_load"
    /\ indexFile.exists /\ ~metaFile.exists
    /\ PipelineFails(e, "faiss_load", 70)
    /\ Quiet
    /\ UNCHANGED <<chunkRows, indexFile, metaFile, queue, taskDoc, sweep,
                   old, uploads>>

\* The embeddings of the run, in chunk order.
Embeddings(e) ==
    [i \in 1..NumChunks(e.doc) |->
        [document |-> e.doc, chunk_index |-> i - 1,
         task |-> e.task, retries |-> e.retries]]

\* Lines 144-150: one id_to_chunk entry per embedding, from start_id on.
MetaEntries_Mut(e) ==
    [i \in 1..NumChunks(e.doc) - 1 |->
        [document_id |-> e.doc, chunk_index |-> i - 1,
         task |-> e.task, retries |-> e.retries]]
MetaEntries(e) ==
    [i \in 1..NumChunks(e.doc) |->
        [document_id |-> e.doc, chunk_index |-> i - 1,
         task |-> e.task, retries |-> e.retries]]

\* index.add(embeddings), line 141, accepts the embeddings: a new index
\* was created with their dimension (lines 135-136); a loaded index
\* asserts that their dimension is its own.
DimOk_Mut(ix, dim) == TRUE
DimOk(ix, dim) == ~ix.exists \/ ix.dim = dim

\* Lines 140-153: start_id, index.add, the side-car entries in memory,
\* faiss.write_index; the index grows to at most `cap` vectors.
FaissWriteIndexUpTo(e, cap) ==
    /\ e \in running /\ e.pc = "faiss_index"
    /\ DimOk(e.ldIndex, e.dim)
    /\ Len(e.ldIndex.vecs) + NumChunks(e.doc) <= cap
    /\ indexFile' = [exists |-> TRUE, dim |-> e.dim,
                     vecs |-> e.ldIndex.vecs \o Embeddings(e)]
    /\ running' = (running \ {e})
          \cup {[e EXCEPT
                  !.start_id = e.ldMeta.next_id,
                  !.ldMeta = [exists |-> TRUE,
                              id_to_chunk |-> e.ldMeta.id_to_chunk
                                              \o MetaEntries(e),
                              next_id |-> e.ldMeta.next_id
                                          + NumChunks(e.doc)],
                  !.pc = NextPc(e.pc)]}
    /\ Quiet
    /\ UNCHANGED <<db, chunkRows, metaFile, queue, taskDoc, sweep, old,
                   failed, events, uploads>>

FaissWriteIndex(e) == FaissWriteIndexUpTo(e, MaxVectors)

\* index.add raises AssertionError because the embeddings have another
\* dimension than the loaded index: nothing was written.
FaissDimFails(e) ==
    /\ e \in running /\ e.pc = "faiss_index"
    /\ ~DimOk(e.ldIndex, e.dim)
    /\ PipelineFails(e, "faiss_dim", 70)
    /\ Quiet
    /\ UNCHANGED <<chunkRows, indexFile, metaFile, queue, taskDoc, sweep,
                   old, uploads>>

\* index.add or faiss.write_index raises: nothing was written.
FaissWriteIndexFails(e) ==
    /\ e \in running /\ e.pc = "faiss_index"
    /\ PipelineFails(e, "faiss_index", 70)
    /\ Quiet
    /\ UNCHANGED <<chunkRows, indexFile, metaFile, queue, taskDoc, sweep,
                   old, uploads>>

\* Lines 154-156 and 194-195: json.dump of the side-car, then progress 90.
FaissWriteMeta(e) ==
    /\ e \in running /\ e.pc = "faiss_meta"
    /\ metaFile' = e.ldMeta
    /\ SaveProgress(e, 90)
    /\ Quiet
    /\ UNCHANGED <<chunkRows, indexFile, queue, taskDoc, sweep, old,
                   failed, events, uploads>>

\* open(metadata_file, 'w') raises: the index file is already written.
FaissWriteMetaFails(e) ==
    /\ e \in running /\ e.pc = "faiss_meta"
    /\ PipelineFails(e, "faiss_meta", 70)
    /\ Quiet
    /\ UNCHANGED <<chunkRows, indexFile, metaFile, queue, taskDoc, sweep,
                   old, uploads>>

\* The worker process dies between faiss.write_index (line 153) and the
\* write of the side-car (lines 155-156).  The message was acknowledged
\* when the task started (Celery's default, settings.py sets no acks_late),
\* so the execution is gone and nothing runs its handlers.
CrashBeforeSidecar(e) ==
    /\ e \in running /\ e.pc = "faiss_meta"
    /\ running' = running \ {e}
    /\ failed' = failed \cup {[task |-> e.task, retries |-> e.retries,
                               stage |-> "crash"]}
    /\ Quiet
    /\ UNCHANGED <<db, chunkRows, indexFile, metaFile, queue, taskDoc,
                   sweep, old, events, uploads>>

\* --------------------------------------------------- chunks and the end
\* Lines 198-207: one DocumentChunk per chunk, faiss_index = start_id + i.
ChunkObjects_Mut(e) ==
    {[document |-> e.doc, chunk_index |-> i,
      faiss_index |-> e.start_id + i + 1,
      task |-> e.task, retries |-> e.retries] : i \in 0..NumChunks(e.doc) - 1}
ChunkObjects(e) ==
    {[document |-> e.doc, chunk_index |-> i, faiss_index |-> e.start_id + i,
      task |-> e.task, retries |-> e.retries] : i \in 0..NumChunks(e.doc) - 1}

\* Lines 209-213: bulk_create, chunk_count in memory, then
\* Document.mark_as_processed, whose save(update_fields=[status,
\* processed_at, processing_progress]) writes these columns only.
BulkCreate(e) ==
    /\ e \in running /\ e.pc = "bulk"
    /\ chunkRows' = chunkRows \cup ChunkObjects(e)
    /\ db' = [db EXCEPT ![e.doc].status = "ready",
                        ![e.doc].processing_progress = 100]
    /\ running' = (running \ {e})
          \cup {[e EXCEPT !.mem.chunk_count = Cardinality(ChunkObjects(e)),
                          !.mem.status = "ready",
                          !.mem.processing_progress = 100,
                          !.pc = NextPc(e.pc)]}
    /\ Quiet
    /\ UNCHANGED <<indexFile, metaFile, queue, taskDoc, sweep, old, failed, events,
                   uploads>>

BulkCreateFails(e) ==
    /\ e \in running /\ e.pc = "bulk"
    /\ PipelineFails(e, "bulk", 90)
    /\ Quiet
    /\ UNCHANGED <<chunkRows, indexFile, metaFile, queue, taskDoc, sweep,
                   old, uploads>>

\* Lines 214-216: is_indexed = True and a full save of the in-memory copy.
FinalSave(e) ==
    /\ e \in running /\ e.pc = "final"
    /\ LET row == [e.mem EXCEPT !.is_indexed = TRUE]
       IN /\ db' = [db EXCEPT ![e.doc] = row]
          /\ running' = (running \ {e})
                \cup {[e EXCEPT !.mem = row, !.pc = NextPc(e.pc)]}
    /\ Quiet
    /\ UNCHANGED <<chunkRows, indexFile, metaFile, queue, taskDoc, sweep,
                   old, failed, events, uploads>>

\* tasks.py 52-78: user.update_usage and the success notification.
UpdateUsage(e) ==
    /\ e \in running /\ e.pc = "usage"
    /\ running' = running \ {e}
    /\ events' = Sent(e.task, e.retries, "ready", 100)
    /\ Quiet
    /\ UNCHANGED <<db, chunkRows, indexFile, metaFile, queue, taskDoc,
                   sweep, old, failed, uploads>>

\* user.update_usage raises after process_document returned True.
UpdateUsageFails(e) ==
    /\ e \in running /\ e.pc = "usage"
    /\ OuterHandler(e.task, e.doc, e.retries, "outer_usage")
    /\ running' = running \ {e}
    /\ Quiet
    /\ UNCHANGED <<chunkRows, indexFile, metaFile, taskDoc, sweep, old, events,
                   uploads>>

\* ------------------------------------------------- maintenance and delete
\* More than 24 hours pass since the rows were created.
DayPasses ==
    /\ ~old
    /\ old' = TRUE
    /\ Quiet
    /\ UNCHANGED <<db, chunkRows, indexFile, metaFile, queue, running,
                   taskDoc, sweep, failed, events, uploads>>

\* status__in=['uploading', 'processing'], line 128.
StaleStatuses_Mut == {"uploading"}
StaleStatuses == {"uploading", "processing"}

\* cleanup_failed_uploads, lines 125-133: the queryset is evaluated once
\* and the loop then works on the rows it loaded.
SweepLoad ==
    /\ sweep = {}
    /\ sweep' = {[id |-> d, row |-> db[d]] :
                    d \in {x \in Docs : /\ old
                                        /\ db[x].status \in StaleStatuses}}
    /\ Quiet
    /\ UNCHANGED <<db, chunkRows, indexFile, metaFile, queue, running,
                   taskDoc, old, failed, events, uploads>>

\* Lines 135-137: one pass of the loop, a full save of the loaded row.
SweepSave(x) ==
    /\ x \in sweep
    /\ db' = [db EXCEPT ![x.id] = [x.row EXCEPT
                                      !.status = "error",
                                      !.error_message = TimeoutMessage]]
    /\ sweep' = sweep \ {x}
    /\ Quiet
    /\ UNCHANGED <<chunkRows, indexFile, metaFile, queue, running, taskDoc,
                   old, failed, events, uploads>>

\* document_delete_view: the soft delete.
DeleteDocument(d) ==
    /\ db' = [db EXCEPT ![d].status = "deleted"]
    /\ Quiet
    /\ UNCHANGED <<chunkRows, indexFile, metaFile, queue, running, taskDoc,
                   sweep, old, failed, events, uploads>>

\* ----------------------------------------------------------------- search
\* `if user_documents and chunk_meta["document_id"] not in user_documents:
\*      continue`
InScope_Mut(document_id, user_documents) == TRUE
InScope(document_id, user_documents) ==
    ~(user_documents # {} /\ document_id \notin user_documents)

\* DocumentChunk.objects.get(document_id=..., chunk_index=...) looks at
\* these rows.
RowsFor(document_id, chunk_index) ==
    {r \in chunkRows : r.document = document_id
                       /\ r.chunk_index = chunk_index}

\* metadata["id_to_chunk"].get(str(idx)) finds an entry in the side-car
\* `mt` that the search loaded.
HasMetaIn(mt, idx) == idx + 1 <= Len(mt.id_to_chunk)

\* The candidate survives the two `continue`s of lines 268-273.
KeptIn(mt, idx, user_documents) ==
    /\ HasMetaIn(mt, idx)
    /\ InScope(mt.id_to_chunk[idx + 1].document_id, user_documents)

\* index.search(query_embedding, k * 2) on the loaded index `ix`: the ids
\* of the min(2k, ntotal) best vectors, best first.  The scores depend on
\* the query, so every ranking of that length is possible.
RankingsOf(ix, k) ==
    LET n == Len(ix.vecs)
        len == IF OverFetch * k < n THEN OverFetch * k ELSE n
    IN {c \in [1..len -> 0..n - 1] :
           \A i, j \in 1..len : i # j => c[i] # c[j]}

\* The similarity scores a query can give: low and high, so that two
\* candidates have equal or different scores.
Scores == {1, 2}

\* What index.search returns for the loaded index `ix`: (score, id) pairs,
\* best first.  faiss orders by score; the order of candidates with equal
\* scores is not specified.
CandidatesOf(ix, k) ==
    {[i \in 1..Len(c) |-> [idx |-> c[i], score |-> sc[i]]] :
        c \in RankingsOf(ix, k),
        sc \in {f \in [1..(IF OverFetch * k < Len(ix.vecs)
                            THEN OverFetch * k ELSE Len(ix.vecs)) -> Scores] :
                  \A a, b \in DOMAIN f : a < b => f[a] >= f[b]}}

\* sorted(results, key=lambda x: x["score"], reverse=True): a stable sort,
\* results with equal scores keep the order in which they were appended.
RECURSIVE InsertByScore(_, _)
InsertByScore(x, sorted) ==
    IF sorted = <<>> THEN <<x>>
    ELSE IF Head(sorted).score >= x.score
         THEN <<Head(sorted)>> \o InsertByScore(x, Tail(sorted))
         ELSE <<x>> \o sorted

RECURSIVE SortedByScore(_)
SortedByScore(rs) ==
    IF rs = <<>> THEN <<>>
    ELSE InsertByScore(rs[Len(rs)],
                       SortedByScore(SubSeq(rs, 1, Len(rs) - 1)))

\* search_documents(query, k, user_documents) for the candidates `cands`,
\* with the index and the side-car `mt` it loaded.  A missing index gives
\* []; any exception (a missing side-car, get() that finds several rows) is
\* caught at line 300 and gives [] as well.
SearchResultsOn(ix, mt, cands, k, user_documents) ==
    IF ~ix.exists \/ ~mt.exists THEN <<>>
    ELSE IF \E i \in 1..Len(cands) :
               /\ KeptIn(mt, cands[i].idx, user_documents)
               /\ LET m == mt.id_to_chunk[cands[i].idx + 1]
                  IN Cardinality(RowsFor(m.document_id, m.chunk_index)) > 1
         THEN <<>>
    ELSE LET Found(c) ==
                 /\ KeptIn(mt, c.idx, user_documents)
                 /\ LET m == mt.id_to_chunk[c.idx + 1]
                    IN RowsFor(m.document_id, m.chunk_index) # {}
             hits == SelectSeq(cands, Found)
             results == [i \in 1..Len(hits) |->
                 [document |-> mt.id_to_chunk[hits[i].idx + 1].document_id,
                  chunk_index |-> mt.id_to_chunk[hits[i].idx + 1].chunk_index,
                  score |-> hits[i].score]]
             sorted == SortedByScore(results)
         IN SubSeq(sorted, 1, IF Len(sorted) < k THEN Len(sorted) ELSE k)

\* ------------------------------------------ a search, one file at a time
\* document_search_view (views.py 174-185) calls search_documents with the
\* user's ready documents as scope.  search_documents reads the index file
\* (line 249) and then the side-car (lines 252-253); a save_to_faiss of
\* another process can write either file in between.  Lines 245-247: a
\* missing index file returns [] at once.
SearchReadIndex(u, k) ==
    /\ lastSearch = NoSearch /\ reader = NoReader
    /\ LET scope == {d \in Docs : Owner(d) = u /\ db[d].status = "ready"}
       IN IF indexFile.exists
          THEN /\ reader' = [user |-> u, k |-> k, scope |-> scope,
                             pc |-> "index", ldIndex |-> indexFile,
                             ldMeta |-> NoMeta]
               /\ lastSearch' = NoSearch
          ELSE /\ reader' = NoReader
               /\ lastSearch' = [user |-> u, k |-> k, scope |-> scope,
                                 results |-> <<>>, dropped |-> {},
                                 missing |-> {}, found |-> 0]
    /\ UNCHANGED <<db, chunkRows, indexFile, metaFile, queue, running,
                   taskDoc, sweep, old, failed, events, uploads>>

\* Lines 252-253: json.load of the side-car as it is now.
SearchReadMeta ==
    /\ lastSearch = NoSearch /\ reader.pc = "index"
    /\ metaFile.exists
    /\ reader' = [reader EXCEPT !.pc = "loaded", !.ldMeta = metaFile]
    /\ UNCHANGED <<db, chunkRows, indexFile, metaFile, queue, running,
                   taskDoc, sweep, old, failed, lastSearch, events, uploads>>

\* A read that raises: the side-car does not exist, or the file is read
\* while a save_to_faiss is rewriting it in place (faiss.write_index and
\* open(..., 'w') truncate the file and fill it again), so that the reader
\* finds a truncated file.  Line 300 catches the exception and returns [].
SearchReadFails ==
    /\ lastSearch = NoSearch /\ reader.pc = "index"
    /\ \/ ~metaFile.exists
       \/ \E e \in running : e.pc \in {"faiss_index", "faiss_meta"}
    /\ lastSearch' = [user |-> reader.user, k |-> reader.k,
                      scope |-> reader.scope, results |-> <<>>,
                      dropped |-> {}, missing |-> {}, found |-> 0]
    /\ reader' = NoReader
    /\ UNCHANGED <<db, chunkRows, indexFile, metaFile, queue, running,
                   taskDoc, sweep, old, failed, events, uploads>>

\* The (document, chunk index) pair that the side-car gives for a vector
\* id, and the rows that DocumentChunk.objects.get looks at for it.
PairOf(mt, idx) ==
    [document |-> mt.id_to_chunk[idx + 1].document_id,
     chunk_index |-> mt.id_to_chunk[idx + 1].chunk_index]

RowsOfCandidate(mt, idx) ==
    RowsFor(mt.id_to_chunk[idx + 1].document_id,
            mt.id_to_chunk[idx + 1].chunk_index)

\* The places in `cands` of the candidates that reach the lookup of lines
\* 275-280.
Looked(mt, cands, user_documents) ==
    {j \in 1..Len(cands) : KeptIn(mt, cands[j].idx, user_documents)}

\* Lines 256-298 on the two loaded files.
SearchFinish ==
    /\ lastSearch = NoSearch /\ reader.pc = "loaded"
    /\ \E cands \in CandidatesOf(reader.ldIndex, reader.k) :
          lastSearch' =
             [user |-> reader.user, k |-> reader.k, scope |-> reader.scope,
              results |-> SearchResultsOn(reader.ldIndex, reader.ldMeta,
                                          cands, reader.k, reader.scope),
              dropped |->
                 {reader.ldMeta.id_to_chunk[cands[i].idx + 1].document_id :
                    i \in {j \in 1..Len(cands) :
                             /\ HasMetaIn(reader.ldMeta, cands[j].idx)
                             /\ ~KeptIn(reader.ldMeta, cands[j].idx,
                                        reader.scope)}},
              missing |->
                 {PairOf(reader.ldMeta, cands[i].idx) :
                    i \in {j \in Looked(reader.ldMeta, cands, reader.scope) :
                             RowsOfCandidate(reader.ldMeta, cands[j].idx)
                                 = {}}},
              found |->
                 Cardinality(
                    {j \in Looked(reader.ldMeta, cands, reader.scope) :
                        RowsOfCandidate(reader.ldMeta, cands[j].idx) # {}})]
    /\ reader' = NoReader
    /\ UNCHANGED <<db, chunkRows, indexFile, metaFile, queue, running,
                   taskDoc, sweep, old, failed, events, uploads>>

\* The response of the search is delivered.
SearchReturns ==
    /\ lastSearch # NoSearch
    /\ lastSearch' = NoSearch
    /\ UNCHANGED <<db, chunkRows, indexFile, metaFile, queue, running,
                   taskDoc, sweep, old, failed, reader, events, uploads>>

\* ----------------------------------------------------------------- upload
\* What a POST to document_upload_view carries and finds: whether the file
\* name has an allowed extension, whether the file is over 50 MB, and
\* whether the user's row is at the document limit or the file would pass
\* the storage limit of the plan.
UploadInputs ==
    [type_ok : BOOLEAN, too_large : BOOLEAN,
     doc_limit_reached : BOOLEAN, storage_limit_reached : BOOLEAN]

\* user.can_upload_document(*args), accounts/models.py 89-99: the method
\* takes one argument, file_size; a call with another number of arguments
\* raises TypeError before the body runs.
can_upload_document(inp, args) ==
    IF Len(args) # 1 THEN "TypeError"
    ELSE IF inp.doc_limit_reached
         THEN <<FALSE, "Document limit reached for your plan">>
    ELSE IF inp.storage_limit_reached
         THEN <<FALSE, "Storage limit reached for your plan">>
    ELSE <<TRUE, "OK">>

\* DocumentUploadForm.clean_file, forms.py 49-68: type, size, then the
\* quota check with the size of the file.
clean_file(inp) ==
    /\ inp.type_ok
    /\ ~inp.too_large
    /\ can_upload_document(inp, <<"file.size">>)[1]

\* Python's truth value of what can_upload_document returned: a tuple is
\* true when it is not empty.
Truthy(result) == Len(result) > 0

\* The calls that the view makes for a POST, in order, and its response:
\* views.py 89-133.
UploadOutcome(inp) ==
    IF ~clean_file(inp)
    THEN [calls |-> <<"clean_file">>, response |-> "form_errors"]
    ELSE LET result == can_upload_document(inp, <<>>)
         IN IF result = "TypeError"
            THEN [calls |-> <<"clean_file", "can_upload_document">>,
                  response |-> "TypeError"]
            ELSE IF ~Truthy(result)
            THEN [calls |-> <<"clean_file", "can_upload_document">>,
                  response |-> "403"]
            ELSE [calls |-> <<"clean_file", "can_upload_document",
                              "save", "delay">>,
                  response |-> "uploaded"]

\* document_upload_view answers a POST for a new document d.  When the
\* view reaches line 124 it has saved the row of d (status uploading, the
\* default) and calls process_document_task.delay.
DocumentUploadView(d, inp) ==
    /\ Len(uploads) < MaxUploads
    /\ LET out == UploadOutcome(inp)
       IN /\ uploads' = Append(uploads, [doc |-> d, input |-> inp,
                                         calls |-> out.calls,
                                         response |-> out.response])
          /\ IF out.response = "uploaded"
             THEN /\ taskDoc' = Append(taskDoc, d)
                  /\ queue' = queue \cup {[task |-> Len(taskDoc) + 1,
                                           doc |-> d, retries |-> 0,
                                           countdown |-> 0]}
             ELSE UNCHANGED <<taskDoc, queue>>
    /\ Quiet
    /\ UNCHANGED <<db, chunkRows, indexFile, metaFile, running, sweep, old,
                   failed, events>>

\* --------------------------------------------------------- specifications
Steps ==
    \/ \E m \in queue : TaskStart(m)
    \/ \E e \in running : Prepare(e)
    \/ \E e \in running : FaissLoad(e)
    \/ \E e \in running : FaissWriteIndex(e)
    \/ \E e \in running : FaissWriteMeta(e)
    \/ \E e \in running : BulkCreate(e)
    \/ \E e \in running : FinalSave(e)
    \/ \E e \in running : UpdateUsage(e)

Faults ==
    \/ \E m \in queue : TaskStartFails(m)
    \/ \E e \in running : ExtractFails(e)
    \/ \E e \in running : EmbedFails(e)
    \/ \E e \in running : FaissWriteIndexFails(e)
    \/ \E e \in running : FaissWriteMetaFails(e)
    \/ \E e \in running : BulkCreateFails(e)
    \/ \E e \in running : UpdateUsageFails(e)

FaultBudget == Cardinality(failed) < MaxFaults

\* Several delay() calls, whose executions overlap, with at most MaxFaults
\* injected failures; the embedding model can differ from run to run.
Next ==
    \/ \E d \in Docs : Schedule(d)
    \/ Steps
    \/ \E e \in running : \E dim \in Dims : Embed(e, dim)
    \/ \E e \in running : FaissDimFails(e)
    \/ \E e \in running : FaissLoadFails(e)
    \/ \E m \in queue : FaultBudget /\ TaskStartFails(m)
    \/ \E e \in running : FaultBudget /\ ExtractFails(e)
    \/ \E e \in running : FaultBudget /\ EmbedFails(e)
    \/ \E e \in running : FaultBudget /\ FaissWriteIndexFails(e)
    \/ \E e \in running : FaultBudget /\ FaissWriteMetaFails(e)
    \/ \E e \in running : FaultBudget /\ BulkCreateFails(e)
    \/ \E e \in running : FaultBudget /\ UpdateUsageFails(e)

Spec == Init /\ [][Next]_vars

\* One delay() call, as document_upload_view makes for a document, with any
\* number of failures, the sweep and the soft delete.
NextSingle ==
    \/ \E d \in Docs : Len(taskDoc) = 0 /\ Schedule(d)
    \/ Steps
    \/ \E e \in running : Embed(e, ModelDim)
    \/ Faults
    \/ DayPasses
    \/ SweepLoad
    \/ \E x \in sweep : SweepSave(x)
    \/ \E d \in Docs : DeleteDocument(d)

SpecSingle == Init /\ [][NextSingle]_vars

\* What a worker can do next with a message it was handed or with the
\* execution it runs: the next stage, a failure of that stage, or its own
\* death.
WorkerStep ==
    \/ Steps
    \/ \E e \in running : Embed(e, ModelDim)
    \/ Faults
    \/ \E m \in queue : TaskStartFailsUnsaved(m)
    \/ \E e \in running : CrashBeforeSidecar(e)

\* One delay() call with any number of failures, the death of the worker,
\* the sweep and the soft delete.
NextLive ==
    \/ \E d \in Docs : Len(taskDoc) = 0 /\ Schedule(d)
    \/ WorkerStep
    \/ DayPasses
    \/ SweepLoad
    \/ \E x \in sweep : SweepSave(x)
    \/ \E d \in Docs : DeleteDocument(d)

\* A worker that is up takes the message that waits and goes on with the
\* task it runs; time passes; the scheduler starts cleanup_failed_uploads
\* again and again, and its loop goes on to the next row.
SpecLive ==
    /\ Init /\ [][NextLive]_vars
    /\ WF_vars(WorkerStep)
    /\ WF_vars(DayPasses)
    /\ WF_vars(SweepLoad)
    /\ WF_vars(\E x \in sweep : SweepSave(x))

\* No execution is queued or in flight.
Idle == queue = {} /\ running = {}

\* Ingestion runs one after the other (a retry runs after the execution
\* that failed), whose save_to_faiss can fail or be cut short by a crash,
\* and searches that read their two files at any moment of a run.
NextSearch ==
    \/ \E d \in Docs : Idle /\ Schedule(d)
    \/ \E m \in queue : TaskStart(m)
    \/ \E e \in running : Prepare(e)
    \/ \E e \in running : Embed(e, ModelDim)
    \/ \E e \in running : FaissLoad(e)
    \/ \E e \in running : FaissWriteIndex(e)
    \/ \E e \in running : FaissWriteMeta(e)
    \/ \E e \in running : BulkCreate(e)
    \/ \E e \in running : FinalSave(e)
    \/ \E e \in running : UpdateUsage(e)
    \/ \E e \in running : FaissLoadFails(e)
    \/ \E e \in running : FaissWriteIndexFails(e)
    \/ \E e \in running : FaissWriteMetaFails(e)
    \/ \E e \in running : CrashBeforeSidecar(e)
    \/ \E e \in running : UpdateUsageFails(e)
    \/ \E u \in Users : \E k \in 1..MaxK : SearchReadIndex(u, k)
    \/ SearchReadMeta
    \/ SearchReadFails
    \/ SearchFinish
    \/ SearchReturns

SpecSearch == Init /\ [][NextSearch]_vars

\* Ingestion runs one after the other, some of them repeated after
\* update_usage failed and some stopped at bulk_create, with an index
\* large enough for a document ingested twice next to another document,
\* and searches.
NextStale ==
    \/ \E d \in Docs : Idle /\ Schedule(d)
    \/ \E m \in queue : TaskStart(m)
    \/ \E e \in running : Prepare(e)
    \/ \E e \in running : Embed(e, ModelDim)
    \/ \E e \in running : FaissLoad(e)
    \/ \E e \in running : FaissWriteIndexUpTo(e, MaxVectorsStale)
    \/ \E e \in running : FaissWriteMeta(e)
    \/ \E e \in running : BulkCreate(e)
    \/ \E e \in running : FinalSave(e)
    \/ \E e \in running : UpdateUsage(e)
    \/ \E e \in running : BulkCreateFails(e)
    \/ \E e \in running : UpdateUsageFails(e)
    \/ \E u \in Users : \E k \in 1..MaxK : SearchReadIndex(u, k)
    \/ SearchReadMeta
    \/ SearchReadFails
    \/ SearchFinish
    \/ SearchReturns

SpecStale == Init /\ [][NextStale]_vars

\* The POST requests to document_upload_view, with every input.
NextUpload == \E d \in Docs : \E inp \in UploadInputs :
                  DocumentUploadView(d, inp)

SpecUpload == Init /\ [][NextUpload]_vars

\* ============================================================== properties
DocTasks(d) == {t \in 1..Len(taskDoc) : taskDoc[t] = d}
ScheduledOnce(d) == Cardinality(DocTasks(d)) = 1
TaskFailures(t) == {f \in failed : f.task = t}
TaskDone(t) ==
    /\ t \in 1..Len(taskDoc)
    /\ \A m \in queue : m.task # t
    /\ \A e \in running : e.task # t

DocRows(d) == {r \in chunkRows : r.document = d}
DocVectors(d) ==
    {i \in 1..Len(indexFile.vecs) : indexFile.vecs[i].document = d}
DocMeta(d) ==
    {i \in 1..Len(metaFile.id_to_chunk) :
        metaFile.id_to_chunk[i].document_id = d}

RunRows(t, r) == {x \in chunkRows : x.task = t /\ x.retries = r}
RunVectors(t, r) ==
    {i \in 1..Len(indexFile.vecs) :
        indexFile.vecs[i].task = t /\ indexFile.vecs[i].retries = r}
RunMeta(t, r) ==
    {i \in 1..Len(metaFile.id_to_chunk) :
        /\ metaFile.id_to_chunk[i].task = t
        /\ metaFile.id_to_chunk[i].retries = r}

FaissStages == {"faiss_load", "faiss_index", "faiss_dim", "faiss_meta"}
PipelineStages == {"extract", "embed", "bulk"} \cup FaissStages
OuterStages == {"outer_start", "outer_usage"}

\* C1: no two executions of process_document_task for the same document
\* are in flight at the same time.
C1_OneRunPerDocument ==
    \A e1, e2 \in running : e1.doc = e2.doc => e1 = e2

\* C2: however often the pipeline runs on a document, the document never
\* has more DocumentChunk rows, index vectors or side-car entries than one
\* run produces.
C2_IdempotentReingestion ==
    \A d \in Docs :
        /\ Cardinality(DocRows(d)) <= NumChunks(d)
        /\ Cardinality(DocVectors(d)) <= NumChunks(d)
        /\ Cardinality(DocMeta(d)) <= NumChunks(d)

\* C3: in every persisted state a ready document has is_indexed = true and
\* chunk_count equal to the number of its DocumentChunk rows.
C3_ReadyInvariant ==
    \A d \in Docs :
        db[d].status = "ready" =>
            /\ db[d].is_indexed
            /\ db[d].chunk_count = Cardinality(DocRows(d))

\* C4: in every persisted state a document in status error has a non-empty
\* error_message.
C4_ErrorHasMessage ==
    \A d \in Docs : db[d].status = "error" => db[d].error_message # ""

\* C5: a run whose save_to_faiss failed has no DocumentChunk row.
C5_AtomicFailure ==
    \A f \in failed :
        f.stage \in FaissStages => RunRows(f.task, f.retries) = {}

\* C5 witness: save_to_faiss failed after the index file was written with
\* the run's vectors, and the run has no chunk row.
C5_Witness ==
    \E f \in failed :
        /\ f.stage = "faiss_meta"
        /\ RunVectors(f.task, f.retries) # {}
        /\ RunRows(f.task, f.retries) = {}

\* C6: a run that failed in a stage of the pipeline leaves no DocumentChunk
\* row, no index vector and no side-car entry of its own.
C6_AllOrNothing ==
    \A f \in failed :
        f.stage \in PipelineStages =>
            /\ RunRows(f.task, f.retries) = {}
            /\ RunVectors(f.task, f.retries) = {}
            /\ RunMeta(f.task, f.retries) = {}

\* Both owners have a ready, indexed document.
BothOwnersIndexed ==
    \A u \in Users :
        \E d \in Docs : /\ Owner(d) = u
                        /\ db[d].status = "ready"
                        /\ db[d].is_indexed

\* C7: when both owners have ready, indexed documents, a search scoped to
\* one owner's documents (the scope that document_search_view computed is
\* the ids of that owner's ready documents, and there are some) returns no
\* result of a document of the other.
C7_OwnershipFiltering ==
    (lastSearch # NoSearch /\ BothOwnersIndexed /\ lastSearch.scope # {}) =>
        \A i \in 1..Len(lastSearch.results) :
            Owner(lastSearch.results[i].document) = lastSearch.user

\* C7 witness: such a search returned a result of its owner while a
\* candidate of the other owner's document was filtered out.
C7_Witness ==
    /\ lastSearch # NoSearch
    /\ BothOwnersIndexed
    /\ Len(lastSearch.results) > 0
    /\ \E d \in lastSearch.dropped : Owner(d) # lastSearch.user

\* C8: every result of a search belongs to the scope that was passed, and
\* with an empty scope the result is empty.
C8_ResultsWithinScope ==
    lastSearch # NoSearch =>
        /\ \A i \in 1..Len(lastSearch.results) :
              lastSearch.results[i].document \in lastSearch.scope
        /\ lastSearch.scope = {} => lastSearch.results = <<>>

\* C9: a task whose only failures are failures of the embedding backend
\* ends with its document ready, unless the backend failed on every allowed
\* attempt, and then the document is in error with a non-empty message.
C9_EmbeddingFailureRetried ==
    \A t \in 1..Len(taskDoc) :
        ( /\ TaskDone(t)
          /\ ScheduledOnce(taskDoc[t])
          /\ TaskFailures(t) # {}
          /\ \A f \in TaskFailures(t) : f.stage = "embed" )
        => \/ db[taskDoc[t]].status = "ready"
           \/ /\ Cardinality(TaskFailures(t)) >= max_retries
              /\ db[taskDoc[t]].status = "error"
              /\ db[taskDoc[t]].error_message # ""

ExhaustedIn(F, t) ==
    \E f \in F : /\ f.task = t
                 /\ f.retries >= max_retries
                 /\ f.stage \in OuterStages

\* The countdowns of the attempts of task t that are queued or in flight.
Countdowns(t) ==
    {m.countdown : m \in {x \in queue : x.task = t}}
    \cup {e.countdown : e \in {x \in running : x.task = t}}

C10_State ==
    /\ \A m \in queue : m.retries <= 3
    /\ \A e \in running : e.retries <= 3
    /\ \A t \in 1..Len(taskDoc) : ExhaustedIn(failed, t) => TaskDone(t)

C10_Step ==
    /\ \A m \in queue' \ queue :
          m.retries > 0 =>
              /\ m.countdown = 60 * m.retries
              /\ \A c \in Countdowns(m.task) : m.countdown > c
    /\ \A t \in 1..Len(taskDoc) :
          (~ExhaustedIn(failed, t) /\ ExhaustedIn(failed', t)) =>
              db'[taskDoc[t]].status = "error"

C11_DeleteAborts ==
    [][\A d \in Docs :
          ( /\ db[d].status = "deleted"
            /\ \E e \in running : e.doc = d
            /\ running' # running )
          => /\ db'[d].status = "deleted"
             /\ {r \in chunkRows' : r.document = d} = DocRows(d)
             /\ {i \in 1..Len(indexFile'.vecs) :
                    indexFile'.vecs[i].document = d} = DocVectors(d)
             /\ {i \in 1..Len(metaFile'.id_to_chunk) :
                    metaFile'.id_to_chunk[i].document_id = d} = DocMeta(d)]_vars

\* The vector and the side-car entry at the id of a DocumentChunk row are
\* the ones its own run added for that chunk.
RowIntact(r) ==
    /\ r.faiss_index + 1 <= Len(indexFile.vecs)
    /\ indexFile.vecs[r.faiss_index + 1] =
          [document |-> r.document, chunk_index |-> r.chunk_index,
           task |-> r.task, retries |-> r.retries]
    /\ r.faiss_index + 1 <= Len(metaFile.id_to_chunk)
    /\ metaFile.id_to_chunk[r.faiss_index + 1] =
          [document_id |-> r.document, chunk_index |-> r.chunk_index,
           task |-> r.task, retries |-> r.retries]

\* No execution is inside save_to_faiss.
NoAddInProgress == \A e \in running : e.pc \notin FaissStages

\* C12: when the runs of two different documents have both left
\* save_to_faiss, and nothing failed, every vector of both runs is in the
\* index with its side-car entry, and no vector id belongs to chunks of two
\* documents.
C12_ConcurrentAdd ==
    ( /\ failed = {}
      /\ Len(taskDoc) = 2 /\ taskDoc[1] # taskDoc[2]
      /\ NoAddInProgress )
    => /\ \A r \in chunkRows : RowIntact(r)
       /\ \A r1, r2 \in chunkRows :
             r1.faiss_index = r2.faiss_index => r1.document = r2.document

\* The vectors of the add of run (t, r) that a search with the loaded index
\* `ix` and the loaded side-car `mt` can see: present in the index and
\* resolvable through the side-car.
VisibleOf(ix, mt, t, r) ==
    {i \in 1..Len(ix.vecs) :
        /\ ix.vecs[i].task = t /\ ix.vecs[i].retries = r
        /\ HasMetaIn(mt, i - 1)}

\* C13: a search that has loaded the index and the side-car, at whatever
\* moments of a save_to_faiss call, sees none of the vectors of that add or
\* exactly the ones that are visible once the add is complete; when no
\* earlier add has failed these are all the vectors of the add.
C13_AddAtomicForSearch ==
    reader.pc = "loaded" =>
        \A e \in running :
            e.pc \in {"faiss_meta", "bulk", "final", "usage"} =>
                LET vis == VisibleOf(reader.ldIndex, reader.ldMeta,
                                     e.task, e.retries)
                    fin == VisibleOf(indexFile,
                                     IF e.pc = "faiss_meta" THEN e.ldMeta
                                                            ELSE metaFile,
                                     e.task, e.retries)
                IN /\ vis = {} \/ vis = fin
                   /\ failed = {} => Cardinality(fin) = NumChunks(e.doc)

\* C13 witness: the search read the index after the write of a two-chunk
\* add and the side-car before it: it holds both vectors and sees neither.
C13_Witness ==
    /\ reader.pc = "loaded"
    /\ \E e \in running :
          /\ e.pc = "faiss_meta"
          /\ NumChunks(e.doc) > 1
          /\ reader.ldIndex = indexFile
          /\ RunVectors(e.task, e.retries) # {}
          /\ VisibleOf(reader.ldIndex, reader.ldMeta, e.task, e.retries) = {}

\* The two files agree: both exist or neither, the side-car's next_id is
\* the number of vectors, and every vector id has a side-car entry.
PairConsistent ==
    /\ indexFile.exists <=> metaFile.exists
    /\ metaFile.next_id = Len(indexFile.vecs)
    /\ Len(metaFile.id_to_chunk) = Len(indexFile.vecs)

\* C14: when the only failures so far are crashes between the two writes of
\* save_to_faiss, the files on disk are a consistent pair.
C14_CrashKeepsPair ==
    ( /\ failed # {}
      /\ \A f \in failed : f.stage = "crash"
      /\ NoAddInProgress )
    => PairConsistent

\* save_to_faiss of execution e has written the index: start_id is the
\* number of vectors that the earlier calls added, and the vectors of the
\* call are in the index at start_id, start_id + 1, ... in input order.
StartIdIsCount(e) ==
    /\ e.start_id = Len(e.ldIndex.vecs)
    /\ \A i \in 1..NumChunks(e.doc) :
          /\ e.start_id + i <= Len(indexFile.vecs)
          /\ indexFile.vecs[e.start_id + i] = Embeddings(e)[i]

\* C15: in a sequence of save_to_faiss calls that do not overlap, every
\* call returns as start_id the number of vectors added before it and its
\* vectors have the ids from start_id on, and no id is given to two chunks.
C15_SequentialIds ==
    /\ \A e \in running : e.pc \in {"faiss_meta", "bulk"} => StartIdIsCount(e)
    /\ \A r1, r2 \in chunkRows : r1.faiss_index = r2.faiss_index => r1 = r2

\* The same for sequences in which no call has failed or crashed.
C15_WithoutFailure == failed = {} => C15_SequentialIds

\* The status changes the spec allows an ingestion run to make.
RunTransitions ==
    {<<"uploading", "processing">>, <<"processing", "ready">>,
     <<"processing", "error">>}

\* C16: every change of a document's status made by a step of an ingestion
\* run (a step of the task or of process_document, not the sweep and not a
\* delete) is uploading -> processing, processing -> ready or
\* processing -> error; so no such step changes the status of a document
\* that is ready, error or deleted.
C16_RunTransitions ==
    [][\A d \in Docs :
          ( /\ db'[d].status # db[d].status
            /\ running' # running \/ failed' # failed )
          => <<db[d].status, db'[d].status>> \in RunTransitions]_vars

\* Execution r of task t has sent its started message and is over.
Terminated(t, r) ==
    /\ RunEvents(t, r) # {}
    /\ \A e \in running : ~(e.task = t /\ e.retries = r)

\* The messages of an execution that close it.
Completed(t, r) == {x \in RunEvents(t, r) : x.status \in {"ready", "error"}}

\* C17: the messages of one execution are, in the order sent: first a
\* started message (status processing), then progress values that do not
\* decrease, and last one completed message (ready or error); an execution
\* that is over has sent its completed message.
C17_EventOrder ==
    \A t \in 1..Len(taskDoc) : \A r \in 0..max_retries :
        /\ \A x \in RunEvents(t, r) : x.n = 1 <=> x.status = "processing"
        /\ \A x, y \in RunEvents(t, r) :
              (x.n < y.n /\ y.status = "processing")
                  => x.progress <= y.progress
        /\ \A x \in Completed(t, r) : \A y \in RunEvents(t, r) : y.n <= x.n
        /\ Cardinality(Completed(t, r)) <= 1
        /\ Terminated(t, r) => Cardinality(Completed(t, r)) = 1

\* The order of document ids (uuid primary keys, models.py line 41).
DocBefore(d1, d2) == d1 = "d1" /\ d2 = "d2"

\* Result x may come before result y: a higher score, or the same score
\* and a lower chunk index, or the same of both and a lower document id.
RankedBefore(x, y) ==
    \/ x.score > y.score
    \/ /\ x.score = y.score
       /\ \/ x.chunk_index < y.chunk_index
          \/ /\ x.chunk_index = y.chunk_index
             /\ DocBefore(x.document, y.document)

\* C18: a search returns at most k results, in descending order of score,
\* and results of equal score in ascending order of chunk index and then
\* of document id.
C18_ResultOrder ==
    lastSearch # NoSearch =>
        /\ Len(lastSearch.results) <= lastSearch.k
        /\ \A i, j \in 1..Len(lastSearch.results) :
              i < j => RankedBefore(lastSearch.results[i],
                                    lastSearch.results[j])

\* The part of C18 that the code keeps: at most k results, and no result
\* before one of a higher score.
C18_ByScoreOnly ==
    lastSearch # NoSearch =>
        /\ Len(lastSearch.results) <= lastSearch.k
        /\ \A i, j \in 1..Len(lastSearch.results) :
              i < j => lastSearch.results[i].score
                          >= lastSearch.results[j].score

\* cleanup_failed_uploads run from start to end on the table `rows` with
\* nothing else running: lines 125-137.
SweepOnce(rows) ==
    [d \in Docs |->
        IF old /\ rows[d].status \in {"uploading", "processing"}
        THEN [rows[d] EXCEPT !.status = "error",
                             !.error_message = TimeoutMessage]
        ELSE rows[d]]

\* A pass of the loop of cleanup_failed_uploads saves the row of x.
SweepSaves(x) == x \in sweep /\ sweep' = sweep \ {x}

\* C19: cleanup_failed_uploads moves the documents that are in processing
\* for more than 24 hours to error with a non-empty timeout message, it
\* changes no document whose status is ready, error or deleted, and a
\* second run after the first changes nothing more.
C19_Sweep ==
    /\ [](SweepOnce(SweepOnce(db)) = SweepOnce(db))
    /\ [][\A x \in sweep : SweepSaves(x) =>
             /\ db'[x.id].status = "error"
             /\ db'[x.id].error_message # ""
             /\ \A d \in Docs :
                   db[d].status \in {"ready", "error", "deleted"}
                       => db'[d] = db[d]]_vars

\* The part of C19 that the code keeps: what a pass saves, and that a
\* second run changes nothing more.
C19_SweepTargets ==
    /\ [](SweepOnce(SweepOnce(db)) = SweepOnce(db))
    /\ [][\A x \in sweep : SweepSaves(x) =>
             /\ x.row.status \in {"uploading", "processing"}
             /\ db'[x.id].status = "error"
             /\ db'[x.id].error_message # ""
             /\ \A d \in Docs \ {x.id} : db'[d] = db[d]]_vars

\* C20: extract_text_from_file never raises to process_document: no run
\* ends in the except branch because of the extraction, and no document
\* is left in error with the extraction message; with an unsupported type
\* the run goes on with a placeholder text and reaches ready.
C20_ExtractNeverRaises ==
    /\ \A f \in failed : f.stage # "extract"
    /\ \A d \in Docs : db[d].error_message # ExtractMessage

\* Execution e makes the last save of process_document (line 216) in this
\* step: the run completes successfully.
CompletesRun(e) ==
    /\ e \in running /\ e.pc = "final"
    /\ e \notin running'
    /\ \E e2 \in running' : e2.task = e.task /\ e2.retries = e.retries
                              /\ e2.pc = "usage"

\* C21: when a run completes successfully, the stored document is ready
\* at progress 100, its chunk_count is the number of chunks the run
\* wrote, it is indexed and its error_message is empty, whatever an
\* earlier attempt or the sweep had stored there.
C21_SuccessClearsError ==
    [][\A e \in running : CompletesRun(e) =>
          /\ db'[e.doc].status = "ready"
          /\ db'[e.doc].processing_progress = 100
          /\ db'[e.doc].chunk_count = Cardinality(ChunkObjects(e))
          /\ db'[e.doc].is_indexed
          /\ db'[e.doc].error_message = ""]_vars

\* The part of C21 that the code keeps: everything but the error_message.
C21_SuccessFields ==
    [][\A e \in running : CompletesRun(e) =>
          /\ db'[e.doc].status = "ready"
          /\ db'[e.doc].processing_progress = 100
          /\ db'[e.doc].chunk_count = Cardinality(ChunkObjects(e))
          /\ db'[e.doc].is_indexed]_vars

\* The executions that end in error in this step: the except branch of
\* process_document or the handler of the task has stored the error.
EndsInError == {f \in failed' \ failed : f.stage # "crash"}

\* C22: the step in which a run ends in error leaves the document's
\* processing_progress as it was stored before the failure.
C22_ErrorKeepsProgress ==
    [][\A f \in EndsInError :
          db'[taskDoc[f.task]].processing_progress
              = db[taskDoc[f.task]].processing_progress]_vars

\* The executions whose save_to_faiss stopped at index.add because of the
\* dimension of their embeddings.
DimFailures == {f \in failed : f.stage = "faiss_dim"}

\* The task ran again after its execution number r.
RanAgain(t, r) ==
    \/ \E m \in queue : m.task = t /\ m.retries > r
    \/ \E e \in running : e.task = t /\ e.retries > r
    \/ \E f \in failed : f.task = t /\ f.retries > r

\* Nothing of a run that stopped at the dimension check is stored, and
\* the task did not run again; no run whose embeddings disagree with the
\* index it loaded gets past index.add.
C23_State ==
    /\ \A f \in DimFailures :
          /\ RunVectors(f.task, f.retries) = {}
          /\ RunMeta(f.task, f.retries) = {}
          /\ RunRows(f.task, f.retries) = {}
          /\ ~RanAgain(f.task, f.retries)
    /\ \A e \in running :
          (e.pc \in {"faiss_meta", "bulk", "final", "usage"}
             /\ e.ldIndex.exists) => e.ldIndex.dim = e.dim

\* The step in which a run stops at the dimension check stores status
\* error and leaves the index, the side-car and the chunk rows alone.
C23_Step ==
    \A f \in DimFailures' \ DimFailures :
        /\ db'[taskDoc[f.task]].status = "error"
        /\ UNCHANGED <<indexFile, metaFile, chunkRows, queue>>

\* C23: a run whose embeddings have another dimension than the existing
\* index stops with the document in error; the index and its side-car are
\* unchanged, no chunk row is written and the job is not retried.
C23_DimensionMismatch == [](C23_State) /\ [][C23_Step]_vars

\* C23 witness: a run stopped at the dimension check of an index that
\* holds the vectors of an earlier run.
C23_Witness ==
    /\ DimFailures # {}
    /\ indexFile.exists /\ Len(indexFile.vecs) > 0
    /\ \E f \in DimFailures : db[taskDoc[f.task]].status = "error"

Contiguous(rows, n) ==
    /\ \A r \in rows : r.chunk_index \in 0..n - 1
    /\ \A i \in 0..n - 1 :
          Cardinality({r \in rows : r.chunk_index = i}) = 1
    /\ \A r1, r2 \in rows :
          r1.chunk_index < r2.chunk_index => r1.faiss_index < r2.faiss_index

\* C25: the DocumentChunk rows of a document that has rows carry the
\* chunk_index values 0..n-1, each exactly once, in emission order.
C25_ContiguousOrdinals ==
    \A d \in Docs : DocRows(d) # {} => Contiguous(DocRows(d), NumChunks(d))

\* The part of C25 that the code keeps: the same for the rows that one
\* execution wrote.
C25_PerRun ==
    \A t \in 1..Len(taskDoc) : \A r \in 0..max_retries :
        RunRows(t, r) # {}
            => Contiguous(RunRows(t, r), NumChunks(taskDoc[t]))

\* The upload is one the spec accepts: a valid form and a user within the
\* limits of the plan.
Accepted(inp) ==
    /\ inp.type_ok /\ ~inp.too_large
    /\ ~inp.doc_limit_reached /\ ~inp.storage_limit_reached

\* The number of times `call` occurs in the calls of a request.
Count(calls, call) ==
    Cardinality({i \in 1..Len(calls) : calls[i] = call})

\* C26: every accepted upload saves the document and then schedules
\* exactly one process_document_task, the admission check comes before
\* the schedule call, and a rejected upload schedules none.
C26_UploadSchedules ==
    \A n \in 1..Len(uploads) :
        LET calls == uploads[n].calls
        IN /\ Accepted(uploads[n].input) =>
                /\ Count(calls, "delay") = 1
                /\ \E i, j, k \in 1..Len(calls) :
                      /\ i < j /\ j < k
                      /\ calls[i] = "can_upload_document"
                      /\ calls[j] = "save"
                      /\ calls[k] = "delay"
           /\ ~Accepted(uploads[n].input) => Count(calls, "delay") = 0

\* The part of C26 that the code keeps: a rejected upload schedules no
\* task, and no task is scheduled before the quota check of the form.
C26_RejectedSchedulesNone ==
    \A n \in 1..Len(uploads) :
        LET calls == uploads[n].calls
        IN /\ ~Accepted(uploads[n].input) => Count(calls, "delay") = 0
           /\ \A k \in 1..Len(calls) :
                 calls[k] = "delay" =>
                     \E i \in 1..k - 1 : calls[i] = "clean_file"

\* The side-car on disk maps the vector id of row c to the document and
\* the chunk index of c.
SidecarHas(c) ==
    /\ c.faiss_index + 1 <= Len(metaFile.id_to_chunk)
    /\ metaFile.id_to_chunk[c.faiss_index + 1].document_id = c.document
    /\ metaFile.id_to_chunk[c.faiss_index + 1].chunk_index = c.chunk_index

C28_NoErrorBeforeRetry ==
    \A m \in queue : m.retries > 0 => db[m.doc].status # "error"

\* The run of document d has completed successfully: its chunk rows are
\* written, is_indexed is true and the status is ready.
RunSucceeded(d) ==
    /\ db[d].status = "ready"
    /\ db[d].is_indexed
    /\ DocRows(d) # {}

\* C29: a pass of cleanup_failed_uploads that saves the copy it loaded
\* before the run of the document ended does not leave a successfully
\* completed document in status error.
C29_SweepKeepsReady ==
    [][\A x \in sweep : (SweepSaves(x) /\ RunSucceeded(x.id))
                             => db'[x.id].status # "error"]_vars

\* An ingestion run was scheduled for document d and d is in neither
\* status ready nor error nor deleted.
Pending(d) ==
    /\ DocTasks(d) # {}
    /\ db[d].status \in {"uploading", "processing"}

====
